---- MODULE Spec2Model ----
(***************************************************************************)
(* A model of src/types.rs of battlesnake-game-types: the snake id map     *)
(* (build_snake_id_map), the Move vocabulary (all, as_index, to_vector,    *)
(* is_not_opposite) and the SimulableGame trait (simulate and              *)
(* simulate_with_moves).                                                   *)
(*                                                                         *)
(* Three specifications share the module:                                  *)
(*   Spec      a game: the id map is built at /start, snakes are           *)
(*             eliminated tick after tick, the map may be rebuilt;         *)
(*   SpecMove  the Move operations applied to a pair of moves;             *)
(*   SpecSim   the two simulation entry points.                            *)
(***************************************************************************)
EXTENDS Integers, Sequences, FiniteSets, TLC

VARIABLES
    \* ---- Spec: one game ----
    you,              \* g.you.id, the controlling snake's external id
    snakes,           \* g.board.snakes of the /start snapshot (ids, in order)
    overflow_checks,  \* rustc's overflow-checks: TRUE in debug, FALSE in release
    phase,            \* "start" | "running" | "panicked"
    built,            \* what build_snake_id_map did on the /start snapshot
    cur,              \* g.board.snakes of the latest snapshot
    rebuilt,          \* what build_snake_id_map did on a later snapshot
    \* ---- SpecMove ----
    a, b,             \* the two moves the operations are applied to
    ret,              \* the value each operation returned last
    ncalls,           \* how many times each operation was called so far
    \* ---- SpecSim ----
    sim_entry,        \* the entry point that was called
    sim_args,         \* its arguments
    sim_calls,        \* the calls of simulate_with_moves it made, in order
    sim_result        \* what it returned

idVars   == <<you, snakes, overflow_checks, phase, built, cur, rebuilt>>
moveVars == <<a, b, ret, ncalls>>
simVars  == <<sim_entry, sim_args, sim_calls, sim_result>>
vars     == <<idVars, moveVars, simVars>>

----------------------------------------------------------------------------
(* Bounds *)

MaxNames == 4   \* external ids of the short rosters are 1..MaxNames
MaxLen   == 3   \* the short rosters have at most MaxLen entries
MaxElim  == 2   \* eliminations per game
MaxCalls == 4   \* Move operations called in one run of SpecMove
MaxK     == 2   \* identities named in one simulation request

(* SnakeId wraps a u8: its values are 0..IdWidth-1 *)
IdWidth == 256

----------------------------------------------------------------------------
(* Helpers on sequences *)

Range(s) == {s[k] : k \in 1..Len(s)}

Distinct(s) == \A j, k \in 1..Len(s) : s[j] = s[k] => j = k

Min(x, y) == IF x <= y THEN x ELSE y

(* s without the entries equal to x *)
Without(s, x) == SelectSeq(s, LAMBDA e : e # x)

(* the position of x in a sequence that holds it *)
IndexOf(s, x) == CHOOSE k \in 1..Len(s) : s[k] = x /\ \A j \in 1..(k-1) : s[j] # x

(* the rosters: duplicate-free sequences of external ids *)
RECURSIVE SeqsUpTo(_, _)
SeqsUpTo(S, n) ==
    IF n = 0 THEN {<<>>}
    ELSE LET shorter == SeqsUpTo(S, n - 1)
         IN  shorter \cup {Append(s, x) : s \in shorter, x \in S}

ShortRosters == {s \in SeqsUpTo(1..MaxNames, MaxLen) : s # <<>> /\ Distinct(s)}

(* rosters around the capacity of the identity type: 255, 256 and 257 snakes *)
LongRosters == {[k \in 1..n |-> k] : n \in {IdWidth - 1, IdWidth, IdWidth + 1}}

----------------------------------------------------------------------------
(* build_snake_id_map *)

(* HashMap::insert: the key's old value, if any, is replaced *)
Insert(hm, key, val) ==
    [x \in (DOMAIN hm) \cup {key} |-> IF x = key THEN val ELSE hm[x]]

(* `i += 1` on the u8 counter. With overflow checks (debug builds) 255 + 1
   panics; without (release builds) it wraps to 0. *)
Increment(st, checks) ==
    IF st.i + 1 >= IdWidth
    THEN IF checks
         THEN [st EXCEPT !.overflow = TRUE, !.panicked = TRUE]
         ELSE [st EXCEPT !.i = (st.i + 1) % IdWidth, !.overflow = TRUE]
    ELSE [st EXCEPT !.i = st.i + 1]

(* the body of `for snake in g.board.snakes.iter()` *)
LoopBody(st, me, snake, checks) ==
    IF snake # me
    THEN Increment([st EXCEPT !.hm = Insert(st.hm, snake, st.i)], checks)
    ELSE st

(* the iterations lo..hi of the loop, one after the other (the range is split
   in two so that a long roster does not nest one evaluation per entry) *)
RECURSIVE Loop(_, _, _, _, _, _)
Loop(st, me, roster, lo, hi, checks) ==
    IF lo > hi \/ st.panicked THEN st
    ELSE IF lo = hi THEN LoopBody(st, me, roster[lo], checks)
    ELSE LET mid == (lo + hi) \div 2
         IN  Loop(Loop(st, me, roster, lo, mid, checks), me, roster, mid + 1, hi, checks)

(* build_snake_id_map(g): hm is the map returned (when it did not panic), i the
   counter at the end, overflow whether `i += 1` ever left the u8 range *)
build_snake_id_map(me, roster, checks) ==
    Loop([hm |-> Insert(<<>>, me, 0), i |-> 1, overflow |-> FALSE, panicked |-> FALSE],
         me, roster, 1, Len(roster), checks)

NotBuilt == [hm |-> <<>>, i |-> 0, overflow |-> FALSE, panicked |-> FALSE]
NotRebuilt == [roster |-> <<>>, out |-> NotBuilt, done |-> FALSE]

----------------------------------------------------------------------------
(* Spec: one game *)

MoveIdle == /\ a = "Up" /\ b = "Up" /\ ret = <<>> /\ ncalls = <<>>
SimIdle  == /\ sim_entry = "none" /\ sim_args = <<>> /\ sim_calls = <<>>
            /\ sim_result = <<>>

Init ==
    /\ \/ snakes \in ShortRosters /\ you \in Range(snakes)
       \/ snakes \in LongRosters /\ you = 1
    /\ overflow_checks \in BOOLEAN
    /\ phase = "start"
    /\ built = NotBuilt
    /\ cur = snakes
    /\ rebuilt = NotRebuilt
    /\ MoveIdle
    /\ SimIdle

(* the /start request: the map is built once and stored *)
Start ==
    /\ phase = "start"
    /\ built' = build_snake_id_map(you, snakes, overflow_checks)
    /\ phase' = IF built'.panicked THEN "panicked" ELSE "running"
    /\ UNCHANGED <<you, snakes, overflow_checks, cur, rebuilt, moveVars, simVars>>

(* a later tick: a snake is eliminated and leaves board.snakes; the stored map
   is only read *)
Eliminate ==
    /\ phase = "running"
    /\ Len(snakes) - Len(cur) < MaxElim
    /\ \E k \in 1..Min(Len(cur), MaxLen) : cur' = Without(cur, cur[k])
    /\ UNCHANGED <<you, snakes, overflow_checks, phase, built, rebuilt, moveVars, simVars>>

(* build_snake_id_map called again, on the latest snapshot *)
Recompute ==
    /\ phase = "running"
    /\ rebuilt' = [roster |-> cur,
                   out |-> build_snake_id_map(you, cur, overflow_checks),
                   done |-> TRUE]
    /\ phase' = IF rebuilt'.out.panicked THEN "panicked" ELSE "running"
    /\ UNCHANGED <<you, snakes, overflow_checks, built, cur, moveVars, simVars>>

Next == Start \/ Eliminate \/ Recompute

Spec == Init /\ [][Next]_vars

----------------------------------------------------------------------------
(* Move *)

(* enum Move, as declared: Left, Down, Up, Right *)
Move == {"Left", "Down", "Up", "Right"}

(* the discriminant the declaration order gives each variant (`m as usize`) *)
Discriminant(m) ==
    CASE m = "Left" -> 0 [] m = "Down" -> 1 [] m = "Up" -> 2 [] m = "Right" -> 3

Vector(vx, vy) == [x |-> vx, y |-> vy]

to_vector_screen(m) ==
    CASE m = "Left"  -> Vector(-1, 0)
      [] m = "Right" -> Vector(1, 0)
      [] m = "Up"    -> Vector(0, -1)
      [] m = "Down"  -> Vector(0, 1)

to_vector(m) ==
    CASE m = "Left"  -> Vector(-1, 0)
      [] m = "Right" -> Vector(1, 0)
      [] m = "Up"    -> Vector(0, 1)
      [] m = "Down"  -> Vector(0, -1)

Move_all_declared == <<"Left", "Down", "Up", "Right">>

Move_all == <<"Up", "Down", "Left", "Right">>

as_index_discriminant(m) == Discriminant(m)

as_index(m) ==
    CASE m = "Up" -> 0 [] m = "Down" -> 1 [] m = "Left" -> 2 [] m = "Right" -> 3

is_not_opposite_one_way(self, other) ==
    ~(<<self, other>> \in {<<"Up", "Down">>, <<"Left", "Right">>})

is_not_opposite(self, other) ==
    ~(<<self, other>> \in {<<"Up", "Down">>, <<"Down", "Up">>,
                           <<"Left", "Right">>, <<"Right", "Left">>})

----------------------------------------------------------------------------
(* SpecMove: the Move operations, called in any order on a pair of moves *)

MoveOps == {"all", "as_index", "to_vector", "to_vector_other",
            "is_not_opposite", "is_not_opposite_rev"}

TotalCalls == ncalls["all"] + ncalls["as_index"] + ncalls["to_vector"]
              + ncalls["to_vector_other"] + ncalls["is_not_opposite"]
              + ncalls["is_not_opposite_rev"]

IdIdle ==
    /\ you = 1 /\ snakes = <<1>> /\ overflow_checks = FALSE /\ phase = "start"
    /\ built = NotBuilt /\ cur = <<1>> /\ rebuilt = NotRebuilt

InitMove ==
    /\ a \in Move
    /\ b \in Move
    /\ ret = [all |-> <<>>, idx |-> 0, vec |-> Vector(0, 0), vec_other |-> Vector(0, 0),
              nopp |-> FALSE, nopp_rev |-> FALSE]
    /\ ncalls = [op \in MoveOps |-> 0]
    /\ IdIdle
    /\ SimIdle

Called(op) ==
    /\ TotalCalls < MaxCalls
    /\ ncalls' = [ncalls EXCEPT ![op] = @ + 1]
    /\ UNCHANGED <<a, b, idVars, simVars>>

(* Move::all() *)
CallAll ==
    /\ ret' = [ret EXCEPT !.all = Move_all]
    /\ Called("all")

(* a.as_index() *)
CallAsIndex ==
    /\ ret' = [ret EXCEPT !.idx = as_index(a)]
    /\ Called("as_index")

(* a.to_vector() *)
CallToVector ==
    /\ ret' = [ret EXCEPT !.vec = to_vector(a)]
    /\ Called("to_vector")

(* b.to_vector() *)
CallToVectorOther ==
    /\ ret' = [ret EXCEPT !.vec_other = to_vector(b)]
    /\ Called("to_vector_other")

(* a.is_not_opposite(&b) *)
CallIsNotOpposite ==
    /\ ret' = [ret EXCEPT !.nopp = is_not_opposite(a, b)]
    /\ Called("is_not_opposite")

(* b.is_not_opposite(&a) *)
CallIsNotOppositeRev ==
    /\ ret' = [ret EXCEPT !.nopp_rev = is_not_opposite(b, a)]
    /\ Called("is_not_opposite_rev")

NextMove ==
    \/ CallAll \/ CallAsIndex \/ CallToVector \/ CallToVectorOther
    \/ CallIsNotOpposite \/ CallIsNotOppositeRev

SpecMove == InitMove /\ [][NextMove]_vars

----------------------------------------------------------------------------
(* Claims about Move, checked under SpecMove *)

Did(op) == ncalls[op] > 0

(* C6: every call of Move::all, however many calls came before it and whatever
   was called in between, returns Up, Down, Left, Right in that order. *)
C6_AllFixedOrder ==
    Did("all") => ret.all = <<"Up", "Down", "Left", "Right">>

(* Move::all was called three times, with other operations called as well *)
C6_Witness ==
    ncalls["all"] >= 3 /\ TotalCalls > ncalls["all"]

(* C7: as_index sends Up, Down, Left, Right to 0, 1, 2, 3: it is one-to-one
   onto 0..3 and Move::all() holds m at position m.as_index(), although the
   variants are declared in another order. *)
C7_AsIndexMatchesAll ==
    Did("as_index") =>
        /\ ret.idx \in 0..3
        /\ Move_all[ret.idx + 1] = a
        /\ ret.idx = (CASE a = "Up" -> 0 [] a = "Down" -> 1
                        [] a = "Left" -> 2 [] a = "Right" -> 3)
        /\ \A m, n \in Move : as_index(m) = as_index(n) => m = n
        /\ {as_index(m) : m \in Move} = 0..3

(* as_index was called on a move whose declaration position is not its index *)
C7_Witness ==
    Did("as_index") /\ a = "Left" /\ Discriminant(a) # ret.idx

OppositePairs == {<<"Up", "Down">>, <<"Down", "Up">>, <<"Left", "Right">>, <<"Right", "Left">>}

(* C8: a.is_not_opposite(b) and b.is_not_opposite(a) agree, and
   a.is_not_opposite(b) is false exactly for (Up,Down), (Down,Up),
   (Left,Right) and (Right,Left), so it is true for every (m,m). *)
C8_NotOppositeSymmetric ==
    /\ (Did("is_not_opposite") /\ Did("is_not_opposite_rev")) => ret.nopp = ret.nopp_rev
    /\ Did("is_not_opposite") => (ret.nopp = FALSE <=> <<a, b>> \in OppositePairs)
    /\ (Did("is_not_opposite") /\ a = b) => ret.nopp = TRUE

(* both orders were called on the opposite pair (Right, Left) *)
C8_Witness ==
    /\ Did("is_not_opposite") /\ Did("is_not_opposite_rev")
    /\ a = "Right" /\ b = "Left" /\ ret.nopp = FALSE

(* C9: to_vector gives Up (0,1), Down (0,-1), Left (-1,0), Right (1,0), and
   the vectors of a and b sum to (0,0) exactly when a.is_not_opposite(b) is
   false. *)
C9_VectorsAndOpposites ==
    /\ Did("to_vector") =>
          ret.vec = (CASE a = "Up"   -> [x |-> 0, y |-> 1]
                       [] a = "Down" -> [x |-> 0, y |-> -1]
                       [] a = "Left" -> [x |-> -1, y |-> 0]
                       [] a = "Right" -> [x |-> 1, y |-> 0])
    /\ (Did("to_vector") /\ Did("to_vector_other") /\ Did("is_not_opposite")) =>
          ((ret.vec.x + ret.vec_other.x = 0 /\ ret.vec.y + ret.vec_other.y = 0)
             <=> ret.nopp = FALSE)

(* the vectors of Up and Down were computed and sum to (0,0) *)
C9_Witness ==
    /\ Did("to_vector") /\ Did("to_vector_other") /\ Did("is_not_opposite")
    /\ a = "Up" /\ b = "Down"
    /\ ret.vec.x + ret.vec_other.x = 0 /\ ret.vec.y + ret.vec_other.y = 0

----------------------------------------------------------------------------
(* SimulableGame *)

(* the identities a request may name, and the instruments it may pass *)
SnakeIds == {0, 1, 2}
Instruments == {"instruments_1", "instruments_2"}

(* candidate move lists: the sublists of Up, Down, Left, Right *)
Candidates ==
    {SelectSeq(<<"Up", "Down", "Left", "Right">>, LAMBDA m : m \in S) : S \in SUBSET Move}

(* the game a joint move leads to: resolving it is the board's business, so
   the successor is known here only by the moves that led to it *)
Successor(tags) == [after |-> tags]

(* every choice of one move per identity, the first identity varying slowest *)
RECURSIVE JointMoves(_)
JointMoves(req) ==
    IF req = <<>> THEN << <<>> >>
    ELSE LET id    == req[1][1]
             moves == req[1][2]
             rest  == JointMoves(Tail(req))
         IN  [n \in 1..(Len(moves) * Len(rest)) |->
                 <<<<id, moves[((n - 1) \div Len(rest)) + 1]>>>>
                     \o rest[((n - 1) % Len(rest)) + 1]]

(* a board that leaves out the joint moves in which every snake moves alike *)
simulate_with_moves_collapsed(instruments, snake_ids_and_moves) ==
    LET joint == SelectSeq(JointMoves(snake_ids_and_moves),
                           LAMBDA t : Len(t) < 2 \/ \E k \in 1..Len(t) : t[k][2] # t[1][2])
    IN  [n \in 1..Len(joint) |-> <<joint[n], Successor(joint[n])>>]

(* simulate_with_moves: one entry, the tags and the successor, per joint move *)
simulate_with_moves(instruments, snake_ids_and_moves) ==
    LET joint == JointMoves(snake_ids_and_moves)
    IN  [n \in 1..Len(joint) |-> <<joint[n], Successor(joint[n])>>]

(* one call of simulate_with_moves, as the call log keeps it *)
CallRecord(instruments, snake_ids_and_moves) ==
    [instruments         |-> instruments,
     snake_ids_and_moves |-> snake_ids_and_moves,
     returned            |-> simulate_with_moves(instruments, snake_ids_and_moves)]

RECURSIVE Dedup(_)
Dedup(s) ==
    IF s = <<>> THEN <<>>
    ELSE <<Head(s)>> \o Dedup(SelectSeq(Tail(s), LAMBDA e : e # Head(s)))

(* a simulate that asks for each identity once, however often it was named *)
simulate_deduplicating(instruments, snake_ids) ==
    LET moves_to_simulate == Move_all
        ids   == Dedup(snake_ids)
        build == [k \in 1..Len(ids) |-> <<ids[k], moves_to_simulate>>]
        call  == CallRecord(instruments, build)
    IN  [calls |-> <<call>>, result |-> call.returned]

(* the default simulate: the calls it makes and what it returns *)
simulate(instruments, snake_ids) ==
    LET moves_to_simulate == Move_all
        build == [k \in 1..Len(snake_ids) |-> <<snake_ids[k], moves_to_simulate>>]
        call  == CallRecord(instruments, build)
    IN  [calls |-> <<call>>, result |-> call.returned]

----------------------------------------------------------------------------
(* SpecSim: one call of either entry point on a game *)

InitSim ==
    /\ SimIdle
    /\ IdIdle
    /\ MoveIdle

(* game.simulate(&instruments, snake_ids) *)
Simulate ==
    /\ sim_entry = "none"
    /\ \E instruments \in Instruments, snake_ids \in SeqsUpTo(SnakeIds, MaxK) :
        LET out == simulate(instruments, snake_ids)
        IN  /\ sim_entry' = "simulate"
            /\ sim_args' = [instruments |-> instruments, snake_ids |-> snake_ids]
            /\ sim_calls' = out.calls
            /\ sim_result' = out.result
            /\ UNCHANGED <<idVars, moveVars>>

(* game.simulate_with_moves(&instruments, snake_ids_and_moves) *)
SimulateWithMoves ==
    /\ sim_entry = "none"
    /\ \E instruments \in Instruments,
       snake_ids_and_moves \in SeqsUpTo(SnakeIds \X Candidates, MaxK) :
        LET call == CallRecord(instruments, snake_ids_and_moves)
        IN  /\ sim_entry' = "simulate_with_moves"
            /\ sim_args' = [instruments |-> instruments,
                            snake_ids_and_moves |-> snake_ids_and_moves]
            /\ sim_calls' = <<call>>
            /\ sim_result' = call.returned
            /\ UNCHANGED <<idVars, moveVars>>

NextSim == Simulate \/ SimulateWithMoves

SpecSim == InitSim /\ [][NextSim]_vars

----------------------------------------------------------------------------
(* Claims about simulation, checked under SpecSim *)

RECURSIVE Product(_)
Product(lens) == IF lens = <<>> THEN 1 ELSE Head(lens) * Product(Tail(lens))

RequestIds(req) == [k \in 1..Len(req) |-> req[k][1]]

(* the Cartesian product of a request's candidate sets, as tag lists *)
Cartesian(req) ==
    {[k \in 1..Len(req) |-> <<req[k][1], f[k]>>] :
        f \in {g \in [1..Len(req) -> Move] : \A k \in 1..Len(req) : g[k] \in Range(req[k][2])}}

(* C3: a call of simulate_with_moves naming k distinct identities with
   candidate sets M_1..M_k returns |M_1| * ... * |M_k| entries whose tag lists
   are pairwise distinct and are exactly the Cartesian product of the sets,
   each naming every identity once, in order, with a move of its own set. *)
C3_CartesianProduct ==
    \A c \in Range(sim_calls) :
        LET req == c.snake_ids_and_moves
            out == c.returned
        IN  (Distinct(RequestIds(req)) /\ \A k \in 1..Len(req) : Distinct(req[k][2])) =>
              /\ Len(out) = Product([k \in 1..Len(req) |-> Len(req[k][2])])
              /\ \A m, n \in 1..Len(out) : out[m][1] = out[n][1] => m = n
              /\ {out[n][1] : n \in 1..Len(out)} = Cartesian(req)
              /\ \A n \in 1..Len(out) :
                    /\ RequestIds(out[n][1]) = RequestIds(req)
                    /\ \A k \in 1..Len(req) : out[n][1][k][2] \in Range(req[k][2])

(* simulate_with_moves was called for identities 0 and 1 with candidates
   Up, Down each, and returned the four joint moves in the order of the
   specification's example *)
C3_Witness ==
    /\ sim_entry = "simulate_with_moves"
    /\ sim_args.snake_ids_and_moves = <<<<0, <<"Up", "Down">>>>, <<1, <<"Up", "Down">>>>>>
    /\ [n \in 1..Len(sim_result) |-> sim_result[n][1]] =
          << <<<<0, "Up">>, <<1, "Up">>>>, <<<<0, "Up">>, <<1, "Down">>>>,
             <<<<0, "Down">>, <<1, "Up">>>>, <<<<0, "Down">>, <<1, "Down">>>> >>

(* C4: simulate makes one call of simulate_with_moves, with its own instruments
   and, for each identity asked for, in order and repeats included, the pair
   of that identity and Up, Down, Left, Right; it returns what the call
   returned. *)
C4_SimulateDelegates ==
    sim_entry = "simulate" =>
        /\ Len(sim_calls) = 1
        /\ sim_calls[1].instruments = sim_args.instruments
        /\ sim_calls[1].snake_ids_and_moves =
              [k \in 1..Len(sim_args.snake_ids) |->
                  <<sim_args.snake_ids[k], <<"Up", "Down", "Left", "Right">>>>]
        /\ sim_result = sim_calls[1].returned

(* simulate was asked for the same identity twice and passed it on twice *)
C4_Witness ==
    /\ sim_entry = "simulate"
    /\ sim_args.snake_ids = <<1, 1>>
    /\ Len(sim_calls) = 1
    /\ RequestIds(sim_calls[1].snake_ids_and_moves) = <<1, 1>>

----------------------------------------------------------------------------
(* Claims about the id map, checked under Spec *)

Others(me, roster) == Without(roster, me)
Ids(hm) == {hm[x] : x \in DOMAIN hm}
Injective(hm) == \A x, y \in DOMAIN hm : hm[x] = hm[y] => x = y
WellFormed == snakes # <<>> /\ you \in Range(snakes)

(* C1: once build_snake_id_map has run on the /start snapshot, it has returned
   a map in which g.you.id has identity 0 and the j-th roster entry other than
   you has identity j; when the roster's ids are pairwise distinct the
   identities are exactly 0..n-1 for the n snakes. *)
C1_IdsInRosterOrder ==
    phase # "start" =>
        /\ ~built.panicked
        /\ built.hm[you] = 0
        /\ \A j \in 1..Len(Others(you, snakes)) :
              built.hm[Others(you, snakes)[j]] = j
        /\ Distinct(snakes) =>
              Ids(built.hm) = 0..(Cardinality(Range(snakes) \cup {you}) - 1)

(* C2: while the game runs on the map built at /start, every snake of the
   starting roster has the identity build_snake_id_map gave it at /start, and
   no identity belongs to two snakes. *)
C2_IdsStableAndUnshared ==
    phase = "running" =>
        /\ Range(snakes) \subseteq DOMAIN built.hm
        /\ built.hm = build_snake_id_map(you, snakes, overflow_checks).hm
        /\ Injective(built.hm)

(* C5: on a non-empty roster that holds you, build_snake_id_map completes, its
   counter never overflows the u8 range and every identity stored is in
   0..255. *)
C5_TotalNoOverflow ==
    (phase # "start" /\ WellFormed) =>
        /\ ~built.panicked
        /\ ~built.overflow
        /\ built.i \in 0..(IdWidth - 1)
        /\ Ids(built.hm) \subseteq 0..(IdWidth - 1)

(* C10: when the map is rebuilt on a later snapshot from which snakes other
   than you were eliminated, every survivor other than you that came after an
   eliminated snake in the starting roster gets an identity lower than its
   /start identity, one that another snake held at /start; you stay 0 and the
   survivors that came before every eliminated snake keep their identity. *)
C10_RebuildShiftsDown ==
    (rebuilt.done /\ ~rebuilt.out.panicked) =>
        LET old   == built.hm
            new   == rebuilt.out.hm
            alive == Range(rebuilt.roster)
            gone  == (Range(snakes) \ alive) \ {you}
        IN  /\ new[you] = 0
            /\ \A p \in alive \ {you} :
                  /\ (\E q \in gone : IndexOf(snakes, q) < IndexOf(snakes, p)) =>
                        /\ new[p] < old[p]
                        /\ \E r \in Range(snakes) \ {p} : old[r] = new[p]
                  /\ (\A q \in gone : IndexOf(snakes, p) < IndexOf(snakes, q)) =>
                        new[p] = old[p]

====
